---- MODULE Spec2Model ----
(***************************************************************************)
(* Model of the whiteboard component App (src/src/App.tsx, the variant     *)
(* with undo/redo history, lines 250-618).                                 *)
(*                                                                         *)
(* The React state of the component is the model's state.  Every event     *)
(* handler runs to completion against the state of the last render, so a   *)
(* handler is a function from the state (a record with one field per       *)
(* useState cell) to the next state, and an action applies one handler.    *)
(*                                                                         *)
(* JavaScript values: an array is a sequence (position i of the array is   *)
(* position i+1 of the sequence); a missing array entry reads as           *)
(* Undefined; null is Null; an optional number is <<>> (undefined) or      *)
(* <<n>>.                                                                  *)
(***************************************************************************)
EXTENDS Integers, Sequences, FiniteSets, TLC

VARIABLES elements, action, tool, selectedElement, history, currentState,
          currentIndex, textInputMode

vars == <<elements, action, tool, selectedElement, history, currentState,
          currentIndex, textInputMode>>

----------------------------------------------------------------------------
(* Bounds of the model *)

\* largest number of entries of `elements` (pointer-downs with a drawing tool)
MaxElements == 2

\* largest length of `history`
MaxHistory == 2

\* the bound on `elements` of the wider specification SpecWide
MaxElementsWide == 3

\* the bounds on `elements` and `history` of the specification SpecHit
MaxElementsHit == 1

MaxHistoryHit == 1

\* the bounds on `elements` and `history` of the specification SpecE2E
MaxElementsE2E == 1

MaxHistoryE2E == 2

\* the pointer positions of SpecHit: the corners of the line (0,0)-(10,0)
\* and of the rectangle (0,0)-(10,10), and a point one unit off the line
PosHit == { <<0, 0>>, <<10, 0>>, <<10, 10>>, <<5, 1>> }

\* the pointer positions of SpecE2E: the end-to-end scenarios of the spec
PosE2E == { <<10, 10>>, <<50, 50>>, <<30, 30>>, <<80, 80>> }

\* the pointer positions (clientX, clientY) the events are drawn from
Pos == { <<0, 0>>, <<2, 2>> }

\* the keydown events <<ctrlKey, key>>: one for every branch of handleKeyDown
KeyEvents == { <<TRUE, "z">>, <<TRUE, "R">>, <<FALSE, "l">>, <<FALSE, "r">>,
               <<FALSE, "S">>, <<FALSE, "t">>, <<FALSE, "x">> }

----------------------------------------------------------------------------
(* JavaScript values *)

Undefined == [undefined |-> TRUE]

Null == [null |-> TRUE]

Max(a, b) == IF a >= b THEN a ELSE b

Min(a, b) == IF a <= b THEN a ELSE b

\* array[i], for a JavaScript index i
At(arr, i) == IF i >= 0 /\ i < Len(arr) THEN arr[i + 1] ELSE Undefined

\* copy = [...arr]; copy[i] = v   (an index past the end leaves holes)
SetAt(arr, i, v) ==
    [ k \in 1..Max(Len(arr), i + 1) |->
        IF k = i + 1 THEN v
        ELSE IF k <= Len(arr) THEN arr[k] ELSE Undefined ]

----------------------------------------------------------------------------
(* Shapes *)

createElement(id, x1, y1, x2, y2, type) ==
    [ id |-> id, x1 |-> x1, y1 |-> y1, x2 |-> x2, y2 |-> y2,
      roughElement |->
          IF type = "line"
          THEN [ shape |-> "line", args |-> <<x1, y1, x2, y2>> ]
          ELSE [ shape |-> "rectangle", args |-> <<x1, y1, x2 - x1, y2 - y1>> ],
      type |-> type, offsetX |-> <<>>, offsetY |-> <<>> ]

----------------------------------------------------------------------------
(* Geometry                                                                *)
(*                                                                         *)
(* distance is a square root, and the line test compares a sum of square   *)
(* roots with a tolerance of 1.  On integer coordinates the comparison     *)
(*     sqrt(A) + sqrt(B) < sqrt(L) + 1                                     *)
(* is decided exactly in integers: first with square roots rounded down    *)
(* and up to 1/100, and, when that is not decisive, by squaring twice.     *)

\* the square of distance(a, b)
distanceSq(ax, ay, bx, by) == (ax - bx) * (ax - bx) + (ay - by) * (ay - by)

RECURSIVE IsqrtIn(_, _, _)
IsqrtIn(n, lo, hi) ==
    IF lo = hi THEN lo
    ELSE LET mid == (lo + hi + 1) \div 2
         IN  IF mid * mid <= n THEN IsqrtIn(n, mid, hi)
                               ELSE IsqrtIn(n, lo, mid - 1)

\* the integer part of sqrt(n)
Isqrt(n) == IsqrtIn(n, 0, 46340)

\* sqrt(n) in hundredths, rounded down and rounded up
SqrtLo(n) == Isqrt(n * 10000)

SqrtHi(n) == LET r == Isqrt(n * 10000) IN IF r * r = n * 10000 THEN r ELSE r + 1

\* sqrt(A) + sqrt(B) < sqrt(L) + 1, by squaring twice
SumBelowExact(A, B, L) ==
    LET K == L + 1 - A - B
        M == 4 * A * B - K * K - 4 * L
    IN  /\ \/ K > 0
           \/ K = 0 /\ L > 0
           \/ K < 0 /\ 4 * L > K * K
        /\ IF K >= 0
           THEN M < 0 \/ M * M < 16 * K * K * L
           ELSE M < 0 /\ M * M > 16 * K * K * L

\* the line test with the tolerance forgotten: offset === 0 up to rounding
offsetBelowOne_NoTolerance(A, B, L) == SqrtHi(A) + SqrtHi(B) <= SqrtLo(L)

\* Math.abs(distance(a, b) - (distance(a, c) + distance(b, c))) < 1,
\* with A, B, L the squares of distance(a, c), distance(b, c), distance(a, b)
offsetBelowOne(A, B, L) ==
    IF SqrtHi(A) + SqrtHi(B) < SqrtLo(L) + 100 THEN TRUE
    ELSE IF SqrtLo(A) + SqrtLo(B) >= SqrtHi(L) + 100 THEN FALSE
    ELSE SumBelowExact(A, B, L)

\* isWithinElement with the bounds of the rectangle exclusive
isWithinElement_Strict(x, y, element) ==
    IF element.type = "rectangle"
    THEN LET minX == Min(element.x1, element.x2)
             maxX == Max(element.x1, element.x2)
             minY == Min(element.y1, element.y2)
             maxY == Max(element.y1, element.y2)
         IN  x > minX /\ x < maxX /\ y > minY /\ y < maxY
    ELSE offsetBelowOne(distanceSq(element.x1, element.y1, x, y),
                        distanceSq(element.x2, element.y2, x, y),
                        distanceSq(element.x1, element.y1, element.x2, element.y2))

\* isWithinElement(x, y, element), for an element that is not undefined
isWithinElement(x, y, element) ==
    IF element.type = "rectangle"
    THEN LET minX == Min(element.x1, element.x2)
             maxX == Max(element.x1, element.x2)
             minY == Min(element.y1, element.y2)
             maxY == Max(element.y1, element.y2)
         IN  x >= minX /\ x <= maxX /\ y >= minY /\ y <= maxY
    ELSE offsetBelowOne(distanceSq(element.x1, element.y1, x, y),
                        distanceSq(element.x2, element.y2, x, y),
                        distanceSq(element.x1, element.y1, element.x2, element.y2))

\* The outcome of elements.find(element => isWithinElement(x, y, element)):
\* the first element that contains the point, Undefined when there is none.
\* The callback destructures its element, so reaching an entry that is
\* undefined before any hit throws a TypeError: the outcome is Thrown.
Thrown == [thrown |-> "TypeError"]

RECURSIVE findFrom(_, _, _, _)
findFrom(x, y, elems, k) ==
    IF k > Len(elems) THEN Undefined
    ELSE IF elems[k] = Undefined THEN Thrown
    ELSE IF isWithinElement(x, y, elems[k]) THEN elems[k]
    ELSE findFrom(x, y, elems, k + 1)

getElementAtPosition(x, y, elems) == findFrom(x, y, elems, 1)

----------------------------------------------------------------------------
(* The state of the component, as the record a handler reads and returns *)

St == [ elements |-> elements, action |-> action, tool |-> tool,
        selectedElement |-> selectedElement, history |-> history,
        currentState |-> currentState, currentIndex |-> currentIndex,
        textInputMode |-> textInputMode ]

\* an optional number with its destructuring default
OrDefault(opt, d) == IF opt = <<>> THEN d ELSE opt[1]

----------------------------------------------------------------------------
(* History *)

\* saveState without the truncation: history.slice(0, currentIndex + 1) dropped
saveState_NoSlice(s, newState) ==
    [s EXCEPT !.history = Append(s.history, newState),
              !.currentIndex = s.currentIndex + 1]

saveState(s, newState) ==
    LET newHistory == Append(SubSeq(s.history, 1, s.currentIndex + 1), newState)
    IN  [s EXCEPT !.history = newHistory,
                  !.currentIndex = s.currentIndex + 1]

\* handleUndo with the guard currentIndex >= 0
handleUndo_GuardZero(s) ==
    IF s.currentIndex >= 0
    THEN [s EXCEPT !.currentIndex = s.currentIndex - 1,
                   !.currentState = At(s.history, s.currentIndex - 1)]
    ELSE s

handleUndo(s) ==
    IF s.currentIndex > 0
    THEN [s EXCEPT !.currentIndex = s.currentIndex - 1,
                   !.currentState = At(s.history, s.currentIndex - 1)]
    ELSE s

\* handleRedo showing history[currentIndex] instead of history[currentIndex + 1]
handleRedo_StaleScene(s) ==
    IF s.currentIndex < Len(s.history) - 1
    THEN [s EXCEPT !.currentIndex = s.currentIndex + 1,
                   !.currentState = At(s.history, s.currentIndex)]
    ELSE s

\* handleRedo with the guard currentIndex < history.length
handleRedo_GuardLength(s) ==
    IF s.currentIndex < Len(s.history)
    THEN [s EXCEPT !.currentIndex = s.currentIndex + 1,
                   !.currentState = At(s.history, s.currentIndex + 1)]
    ELSE s

handleRedo(s) ==
    IF s.currentIndex < Len(s.history) - 1
    THEN [s EXCEPT !.currentIndex = s.currentIndex + 1,
                   !.currentState = At(s.history, s.currentIndex + 1)]
    ELSE s

\* updateElement saving the scene of the last render instead of elementsCopy
updateElement_SavesOldScene(s, id, x1, y1, clientX, clientY, type) ==
    LET updatedElement == createElement(id, x1, y1, clientX, clientY, type)
        elementsCopy == SetAt(s.currentState, id, updatedElement)
    IN  saveState([s EXCEPT !.currentState = elementsCopy], s.currentState)

\* updateElement appending the updated shape instead of writing it at
\* index id
updateElement_Pushes(s, id, x1, y1, clientX, clientY, type) ==
    LET updatedElement == createElement(id, x1, y1, clientX, clientY, type)
        elementsCopy == Append(s.currentState, updatedElement)
    IN  saveState([s EXCEPT !.currentState = elementsCopy], elementsCopy)

updateElement(s, id, x1, y1, clientX, clientY, type) ==
    LET updatedElement == createElement(id, x1, y1, clientX, clientY, type)
        elementsCopy == SetAt(s.currentState, id, updatedElement)
    IN  saveState([s EXCEPT !.currentState = elementsCopy], elementsCopy)

----------------------------------------------------------------------------
(* Tool buttons and keyboard *)

handleLineButtonClick(s) == [s EXCEPT !.tool = "line"]

handleRectangleButtonClick(s) == [s EXCEPT !.tool = "rectangle"]

\* handleSelection without setSelectedElement(null)
handleSelection_KeepsSelection(s) ==
    [s EXCEPT !.tool = "selection", !.action = "none"]

handleSelection(s) ==
    [s EXCEPT !.tool = "selection", !.action = "none", !.selectedElement = Null]

\* onClick of the button "text"
handleTextButtonClick(s) == [s EXCEPT !.textInputMode = ~s.textInputMode]

handleKeyDown(s, ctrlKey, key) ==
    IF (ctrlKey /\ key = "z") \/ (ctrlKey /\ key = "Z") THEN handleUndo(s)
    ELSE IF (ctrlKey /\ key = "r") \/ (ctrlKey /\ key = "R") THEN handleRedo(s)
    ELSE IF key = "l" \/ key = "L" THEN [s EXCEPT !.tool = "line"]
    ELSE IF key = "r" \/ key = "R" THEN [s EXCEPT !.tool = "rectangle"]
    ELSE IF key = "s" \/ key = "S" THEN [s EXCEPT !.tool = "selection"]
    ELSE IF key = "t" \/ key = "T" THEN [s EXCEPT !.textInputMode = ~s.textInputMode]
    ELSE s

----------------------------------------------------------------------------
(* Pointer events.  A handler that throws leaves the state as it was: both *)
(* handlers read the scene before they set anything.                       *)

handleMouseDownThrows(s, clientX, clientY) ==
    /\ ~s.textInputMode
    /\ s.tool = "selection"
    /\ getElementAtPosition(clientX, clientY, s.currentState) = Thrown

handleMouseDown(s, clientX, clientY) ==
    IF s.textInputMode
    THEN [s EXCEPT !.textInputMode = FALSE]
    ELSE IF s.tool = "selection"
    THEN LET element == getElementAtPosition(clientX, clientY, s.currentState)
         IN  IF element = Thrown \/ element = Undefined
             THEN s
             ELSE [s EXCEPT !.selectedElement =
                                [element EXCEPT !.offsetX = <<clientX - element.x1>>,
                                                !.offsetY = <<clientY - element.y1>>],
                            !.action = "moving"]
    ELSE LET id == Len(s.elements)
             element == createElement(id, clientX, clientY, clientX, clientY, s.tool)
         IN  [s EXCEPT !.elements = Append(s.elements, element),
                       !.action = "drawing"]

handleMouseMoveThrows(s, clientX, clientY) ==
    IF s.tool = "selection"
    THEN getElementAtPosition(clientX, clientY, s.currentState) = Thrown
    ELSE s.action = "drawing" /\ Len(s.elements) = 0

\* handleMouseMove placing the anchor corner at the pointer: the grab offset
\* is not subtracted
handleMouseMove_IgnoresOffset(s, clientX, clientY, touches) ==
    IF handleMouseMoveThrows(s, clientX, clientY) THEN s
    ELSE IF s.tool = "selection"
    THEN IF s.action = "moving" /\ s.selectedElement # Null
         THEN LET sel == s.selectedElement
                  height == sel.y2 - sel.y1
                  width == sel.x2 - sel.x1
              IN  updateElement(s, sel.id, clientX, clientY,
                                clientX + width, clientY + height, sel.type)
         ELSE s
    ELSE IF s.action = "drawing"
    THEN LET index == Len(s.elements) - 1
             el == At(s.elements, index)
         IN  updateElement(s, index, el.x1, el.y1, clientX, clientY, s.tool)
    ELSE s

\* touches: the event is a touch event ('touches' in event)
handleMouseMove(s, clientX, clientY, touches) ==
    IF handleMouseMoveThrows(s, clientX, clientY) THEN s
    ELSE IF s.tool = "selection"
    THEN IF s.action = "moving" /\ s.selectedElement # Null
         THEN LET sel == s.selectedElement
                  offsetX == OrDefault(sel.offsetX, 0)
                  offsetY == OrDefault(sel.offsetY, 0)
                  height == sel.y2 - sel.y1
                  width == sel.x2 - sel.x1
                  newX1 == clientX - offsetX
                  newY1 == clientY - offsetY
              IN  updateElement(s, sel.id, newX1, newY1,
                                newX1 + width, newY1 + height, sel.type)
         ELSE s
    ELSE IF s.action = "drawing" /\ touches
    THEN LET index == Len(s.elements) - 1
             el == At(s.elements, index)
         IN  updateElement(s, index, el.x1, el.y1, clientX, clientY, s.tool)
    ELSE IF s.action = "drawing" /\ ~touches
    THEN LET index == Len(s.elements) - 1
             el == At(s.elements, index)
         IN  updateElement(s, index, el.x1, el.y1, clientX, clientY, s.tool)
    ELSE s

\* handleMouseUp without setSelectedElement(null)
handleMouseUp_KeepsSelection(s) == [s EXCEPT !.action = "none"]

handleMouseUp(s) == [s EXCEPT !.action = "none", !.selectedElement = Null]

----------------------------------------------------------------------------
(* The state machine *)

Init ==
    /\ elements = <<>>
    /\ action = "none"
    /\ tool = "line"
    /\ selectedElement = Null
    /\ history = <<>>
    /\ currentState = <<>>
    /\ currentIndex = -1
    /\ textInputMode = FALSE

\* the handler's result becomes the state of the next render
Render(s) ==
    /\ elements' = s.elements
    /\ action' = s.action
    /\ tool' = s.tool
    /\ selectedElement' = s.selectedElement
    /\ history' = s.history
    /\ currentState' = s.currentState
    /\ currentIndex' = s.currentIndex
    /\ textInputMode' = s.textInputMode

MouseDown(p) ==
    LET t == handleMouseDown(St, p[1], p[2])
    IN  Len(t.elements) <= MaxElements /\ Render(t)

MouseDownWide(p) ==
    LET t == handleMouseDown(St, p[1], p[2])
    IN  Len(t.elements) <= MaxElementsWide /\ Render(t)

MouseMove(p, touches) ==
    LET t == handleMouseMove(St, p[1], p[2], touches)
    IN  Len(t.history) <= MaxHistory /\ Render(t)

MouseUp ==
    LET t == handleMouseUp(St)
    IN  /\ Render(t)

KeyDown(ev) ==
    LET t == handleKeyDown(St, ev[1], ev[2])
    IN  /\ Render(t)

LineButtonClick ==
    LET t == handleLineButtonClick(St)
    IN  /\ Render(t)

RectangleButtonClick ==
    LET t == handleRectangleButtonClick(St)
    IN  /\ Render(t)

SelectionButtonClick ==
    LET t == handleSelection(St)
    IN  /\ Render(t)

TextButtonClick ==
    LET t == handleTextButtonClick(St)
    IN  /\ Render(t)

Next ==
    \/ \E p \in Pos : MouseDown(p)
    \/ \E p \in Pos, touches \in BOOLEAN : MouseMove(p, touches)
    \/ MouseUp
    \/ \E ev \in KeyEvents : KeyDown(ev)
    \/ LineButtonClick
    \/ RectangleButtonClick
    \/ SelectionButtonClick
    \/ TextButtonClick

Spec == Init /\ [][Next]_vars

\* the same component, with room for one more pointer-down of a drawing tool
NextWide ==
    \/ \E p \in Pos : MouseDownWide(p)
    \/ \E p \in Pos, touches \in BOOLEAN : MouseMove(p, touches)
    \/ MouseUp
    \/ \E ev \in KeyEvents : KeyDown(ev)
    \/ LineButtonClick
    \/ RectangleButtonClick
    \/ SelectionButtonClick
    \/ TextButtonClick

SpecWide == Init /\ [][NextWide]_vars

\* the same component with the pointer positions P and the bounds given
MouseDownIn(p, maxElements) ==
    LET t == handleMouseDown(St, p[1], p[2])
    IN  Len(t.elements) <= maxElements /\ Render(t)

MouseMoveIn(p, touches, maxHistory) ==
    LET t == handleMouseMove(St, p[1], p[2], touches)
    IN  Len(t.history) <= maxHistory /\ Render(t)

NextIn(P, maxElements, maxHistory) ==
    \/ \E p \in P : MouseDownIn(p, maxElements)
    \/ \E p \in P, touches \in BOOLEAN : MouseMoveIn(p, touches, maxHistory)
    \/ MouseUp
    \/ \E ev \in KeyEvents : KeyDown(ev)
    \/ LineButtonClick
    \/ RectangleButtonClick
    \/ SelectionButtonClick
    \/ TextButtonClick

\* one shape drawn from the points of the hit-testing examples
NextHit == NextIn(PosHit, MaxElementsHit, MaxHistoryHit)

SpecHit == Init /\ [][NextHit]_vars

\* the events of the end-to-end scenarios: one shape drawn and moved between
\* the points of the scenarios, the tool chosen with the buttons
NextE2E ==
    \/ \E p \in PosE2E : MouseDownIn(p, MaxElementsE2E)
    \/ \E p \in PosE2E, touches \in BOOLEAN : MouseMoveIn(p, touches, MaxHistoryE2E)
    \/ MouseUp
    \/ LineButtonClick
    \/ SelectionButtonClick

SpecE2E == Init /\ [][NextE2E]_vars

----------------------------------------------------------------------------
(* Properties *)

\* a PointerMove at (x, y) in state s is handled as a drawing or a moving
\* update, the two cases in which handleMouseMove calls updateElement
UpdatingMove(s, x, y) ==
    /\ ~handleMouseMoveThrows(s, x, y)
    /\ \/ s.tool = "selection" /\ s.action = "moving" /\ s.selectedElement # Null
       \/ s.tool # "selection" /\ s.action = "drawing"

\* the events Undo and Redo, as the keyboard delivers them
Undo(s) == handleKeyDown(s, TRUE, "z")

Redo(s) == handleKeyDown(s, TRUE, "r")

\* C1: once a commit has occurred, the displayed scene (currentState) is
\* history[currentIndex], in every state the events can reach.
C1_DisplayedSceneIsHistoryEntry ==
    Len(history) > 0 =>
        /\ currentIndex + 1 \in 1..Len(history)
        /\ currentState = history[currentIndex + 1]

\* C1 witness: after commits and an Undo, with a shape grabbed: the scene
\* displayed is an older entry of the history
C1_Witness ==
    /\ Len(history) = 2
    /\ currentIndex = 0
    /\ history[1] # history[2]
    /\ currentState = history[1]
    /\ action = "moving"

\* C2: a commit made while currentIndex = i keeps the entries 0..i, discards
\* every entry after i, appends the new snapshot as entry i+1 and sets
\* currentIndex to i+1; so after it currentIndex = length(history) - 1 and a
\* Redo changes nothing.
C2_CommitTruncatesAndAppends ==
    \A p \in Pos, touches \in BOOLEAN :
        UpdatingMove(St, p[1], p[2]) =>
            LET t == handleMouseMove(St, p[1], p[2], touches)
            IN  /\ Len(t.history) = currentIndex + 2
                /\ \A k \in 1..(currentIndex + 1) : t.history[k] = history[k]
                /\ t.history[currentIndex + 2] = t.currentState
                /\ t.currentIndex = currentIndex + 1
                /\ t.currentIndex = Len(t.history) - 1
                /\ Redo(t) = t

\* C2 witness: a drawing update is about to be committed after an Undo, with
\* an undone entry in the history that differs from every scene the update
\* can produce
C2_Witness ==
    /\ Len(history) = 2
    /\ currentIndex = 0
    /\ action = "drawing"
    /\ tool # "selection"
    /\ \A p \in Pos :
           /\ UpdatingMove(St, p[1], p[2])
           /\ handleMouseMove(St, p[1], p[2], FALSE).currentState # history[2]

\* C3: with currentIndex > 0, Undo moves to currentIndex - 1 and displays
\* the snapshot stored there, and a Redo right after it restores the index
\* and the displayed scene; neither changes the history.
C3_UndoRedoInverse ==
    currentIndex > 0 =>
        LET u == Undo(St)
            r == Redo(u)
        IN  /\ u.currentIndex = currentIndex - 1
            /\ u.currentState = history[currentIndex]
            /\ u.history = history
            /\ r.currentIndex = currentIndex
            /\ r.currentState = currentState
            /\ r.history = history
            /\ r = St

\* C3 witness: two different snapshots committed, the second one displayed
C3_Witness ==
    /\ Len(history) = 2
    /\ currentIndex = 1
    /\ history[1] # history[2]
    /\ Undo(St).currentState = history[1]
    /\ Redo(Undo(St)).currentState = history[2]

\* C4: once a commit has occurred 0 <= currentIndex < length(history);
\* before the first commit the history is empty and currentIndex = -1.
C4_IndexInRange ==
    IF Len(history) = 0
    THEN currentIndex = -1
    ELSE 0 <= currentIndex /\ currentIndex < Len(history)

\* C4 witness: the oldest entry displayed after an Undo, no gesture going on
C4_Witness ==
    /\ Len(history) = 2
    /\ currentIndex = 0
    /\ action = "none"

\* C5: Undo with no older state (currentIndex <= 0) and Redo with no newer
\* state (currentIndex = length(history) - 1) leave the whole state as it is.
C5_UndoRedoNoOp ==
    /\ currentIndex <= 0 => Undo(St) = St
    /\ currentIndex = Len(history) - 1 => Redo(St) = St

\* C5 witness: one entry in the history, a shape grabbed: there is neither
\* an older nor a newer state, and there is a selection to keep
C5_Witness ==
    /\ Len(history) = 1
    /\ currentIndex = 0
    /\ action = "moving"
    /\ selectedElement # Null

\* C9: PointerUp sets action to Idle and clears the selection, leaves tool,
\* scene, history and currentIndex alone, and a second PointerUp changes
\* nothing.
C9_PointerUp ==
    LET t == handleMouseUp(St)
    IN  /\ t.action = "none"
        /\ t.selectedElement = Null
        /\ t.tool = tool
        /\ t.currentState = currentState
        /\ t.history = history
        /\ t.currentIndex = currentIndex
        /\ handleMouseUp(t) = t

\* C9 witness: a drag is going on, with a selection for PointerUp to clear
C9_Witness ==
    /\ action = "moving"
    /\ selectedElement # Null
    /\ tool = "selection"
    /\ Len(history) = 2

\* C6: from an Idle state with tool Line or Rectangle and text input not
\* armed, PointerDown(p), PointerMove(q), PointerUp displays the previous
\* scene with exactly one new shape appended at the end, of the tool's kind
\* and with coordinates (p)-(q), every earlier shape unchanged, and the last
\* history entry is that scene.
C6_DrawGesture ==
    (action = "none" /\ tool \in {"line", "rectangle"} /\ ~textInputMode) =>
        \A p \in Pos, q \in Pos :
            LET d == handleMouseDown(St, p[1], p[2])
                m == handleMouseMove(d, q[1], q[2], FALSE)
                t == handleMouseUp(m)
                n == Len(currentState)
            IN  /\ Len(t.currentState) = n + 1
                /\ \A k \in 1..n : t.currentState[k] = currentState[k]
                /\ t.currentState[n + 1] # Undefined
                /\ t.currentState[n + 1].type = tool
                /\ t.currentState[n + 1].x1 = p[1]
                /\ t.currentState[n + 1].y1 = p[2]
                /\ t.currentState[n + 1].x2 = q[1]
                /\ t.currentState[n + 1].y2 = q[2]
                /\ Len(t.history) > 0
                /\ t.history[Len(t.history)] = t.currentState

\* C7: PointerDown at p with tool Line or Rectangle creates a zero-size
\* shape at p whose id is the length of the displayed scene before the
\* event, appends it to that scene and sets action to Drawing.
C7_PointerDownAppends ==
    (tool \in {"line", "rectangle"} /\ ~textInputMode) =>
        \A p \in Pos :
            LET t == handleMouseDown(St, p[1], p[2])
                n == Len(currentState)
            IN  /\ t.action = "drawing"
                /\ Len(t.elements) > 0
                /\ t.elements[Len(t.elements)].id = n
                /\ t.currentState =
                       Append(currentState,
                              createElement(n, p[1], p[2], p[1], p[2], tool))

\* the shape e of scene `before` is translated by (dx, dy) in scene `after`,
\* and nothing else differs
MovedBy(before, after, e, dx, dy) ==
    /\ Len(after) = Len(before)
    /\ \A k \in 1..Len(after) :
           IF k = e.id + 1
           THEN after[k] = createElement(e.id, e.x1 + dx, e.y1 + dy,
                                         e.x2 + dx, e.y2 + dy, e.type)
           ELSE after[k] = before[k]

\* C8: in a Moving drag started by PointerDown at g on a shape e, after
\* every PointerMove(q) the shape has the coordinates of e translated by
\* q - g (signed width and height, kind and id kept), the grab offset is the
\* one captured at PointerDown, and the other shapes are unchanged.
C8_MovingDrag ==
    (tool = "selection" /\ ~textInputMode) =>
        \A g \in Pos :
            LET e == getElementAtPosition(g[1], g[2], currentState)
                d == handleMouseDown(St, g[1], g[2])
            IN  (e # Thrown /\ e # Undefined) =>
                    \A q1 \in Pos, q2 \in Pos :
                        LET m1 == handleMouseMove(d, q1[1], q1[2], FALSE)
                            m2 == handleMouseMove(m1, q2[1], q2[2], FALSE)
                        IN  /\ d.action = "moving"
                            /\ MovedBy(d.currentState, m1.currentState, e,
                                       q1[1] - g[1], q1[2] - g[2])
                            /\ MovedBy(m1.currentState, m2.currentState,
                                       m1.currentState[e.id + 1],
                                       q2[1] - q1[1], q2[2] - q1[2])
                            /\ MovedBy(d.currentState, m2.currentState, e,
                                       q2[1] - g[1], q2[2] - g[2])
                            /\ m1.selectedElement = d.selectedElement
                            /\ m2.selectedElement = d.selectedElement

\* a tool switch to newTool, by button or by keyboard shortcut
ToolSwitch(s, newTool, byKey) ==
    IF byKey
    THEN handleKeyDown(s, FALSE, IF newTool = "line" THEN "l"
                                 ELSE IF newTool = "rectangle" THEN "r" ELSE "s")
    ELSE IF newTool = "line" THEN handleLineButtonClick(s)
    ELSE IF newTool = "rectangle" THEN handleRectangleButtonClick(s)
    ELSE handleSelection(s)

\* C10: ToolSwitch(newTool) sets tool and alters neither scene nor history,
\* and does not alter action, except that every switch to Selection from
\* another tool, by button or by keyboard, forces action to Idle and clears
\* the selection.
C10_ToolSwitch ==
    \A newTool \in {"line", "rectangle", "selection"}, byKey \in BOOLEAN :
        LET t == ToolSwitch(St, newTool, byKey)
        IN  /\ t.tool = newTool
            /\ t.currentState = currentState
            /\ t.history = history
            /\ t.currentIndex = currentIndex
            /\ IF newTool = "selection" /\ tool # "selection"
               THEN t.action = "none" /\ t.selectedElement = Null
               ELSE t.action = action

\* the positions of a scene whose shape contains the point (x, y)
Hits(x, y, scene) ==
    { k \in 1..Len(scene) :
        scene[k] # Undefined /\ isWithinElement(x, y, scene[k]) }

\* C11: on the displayed scene, findAt returns the earliest shape among
\* those whose hit test contains the point, and none exactly when no shape
\* contains it.
C11_FindAtFirstHit ==
    \A p \in Pos :
        LET r == getElementAtPosition(p[1], p[2], currentState)
            h == Hits(p[1], p[2], currentState)
        IN  IF h = {}
            THEN r = Undefined
            ELSE r = currentState[CHOOSE k \in h : \A j \in h : k <= j]

\* the scene that holds just the Line (0,0)-(10,0)
LineScene == << createElement(0, 0, 0, 10, 0, "line") >>

\* C12 as stated: for the Line (0,0)-(10,0) the hit test is true for (5,0),
\* false for (5,1) and false for (15,0).
C12_LineHitAsStated ==
    currentState = LineScene =>
        /\ isWithinElement(5, 0, currentState[1])
        /\ ~isWithinElement(5, 1, currentState[1])
        /\ ~isWithinElement(15, 0, currentState[1])

\* C12 amended: for the Line (0,0)-(10,0) the hit test is true for (5,0),
\* true for (5,1) (the detour through it is 0.198 longer than the segment,
\* within the tolerance of 1) and false for (15,0); selecting at these
\* points grabs the line or does nothing accordingly.
C12_LineHit ==
    currentState = LineScene =>
        /\ isWithinElement(5, 0, currentState[1])
        /\ isWithinElement(5, 1, currentState[1])
        /\ ~isWithinElement(15, 0, currentState[1])
        /\ (tool = "selection" /\ ~textInputMode) =>
               /\ handleMouseDown(St, 5, 0).action = "moving"
               /\ handleMouseDown(St, 5, 1).action = "moving"
               /\ handleMouseDown(St, 15, 0) = St

\* C12 witness: the Line (0,0)-(10,0) is displayed and was grabbed at (5,1)
C12_Witness ==
    /\ currentState = LineScene
    /\ action = "moving"
    /\ selectedElement # Null
    /\ selectedElement.offsetX = <<5>>
    /\ selectedElement.offsetY = <<1>>

\* the coordinates the rectangle examples are tested at
HitCoords == {-1, 0, 5, 10, 11}

\* C13: a Rectangle, its corners in any order, contains (x, y) exactly when
\* x lies between x1 and x2 and y between y1 and y2, bounds included; with
\* corners (0,0)-(10,10) it contains (0,0), (10,10), (5,5) and not (11,5),
\* (-1,5).
C13_RectangleHit ==
    /\ \A k \in 1..Len(currentState) :
           (currentState[k] # Undefined /\ currentState[k].type = "rectangle") =>
               LET e == currentState[k]
               IN  \A x \in HitCoords, y \in HitCoords :
                       isWithinElement(x, y, e) <=>
                           /\ (e.x1 <= x /\ x <= e.x2) \/ (e.x2 <= x /\ x <= e.x1)
                           /\ (e.y1 <= y /\ y <= e.y2) \/ (e.y2 <= y /\ y <= e.y1)
    /\ currentState = << createElement(0, 0, 0, 10, 10, "rectangle") >> =>
           /\ isWithinElement(0, 0, currentState[1])
           /\ isWithinElement(10, 10, currentState[1])
           /\ isWithinElement(5, 5, currentState[1])
           /\ ~isWithinElement(11, 5, currentState[1])
           /\ ~isWithinElement(-1, 5, currentState[1])

\* C13 witness: a rectangle drawn from (10,10) back to (0,0), so that x1 > x2
\* and y1 > y2, was grabbed at (5,1)
C13_Witness ==
    /\ currentState = << createElement(0, 10, 10, 0, 0, "rectangle") >>
    /\ action = "moving"
    /\ selectedElement # Null
    /\ selectedElement.offsetX = <<-5>>
    /\ selectedElement.offsetY = <<-9>>

\* the state after the scenario that draws the Line (10,10)-(50,50) from the
\* initial state: ToolSwitch(Line), PointerDown(10,10), PointerMove(50,50),
\* PointerUp
AfterDrawScenario ==
    /\ currentState = << createElement(0, 10, 10, 50, 50, "line") >>
    /\ history = << currentState >>
    /\ currentIndex = 0
    /\ Len(elements) = 1
    /\ action = "none"
    /\ tool = "line"
    /\ selectedElement = Null
    /\ ~textInputMode

\* the state after ToolSwitch(Selection), PointerDown(30,30),
\* PointerMove(80,80), PointerUp from state s
MoveScenario(s, byKey) ==
    handleMouseUp(
        handleMouseMove(
            handleMouseDown(ToolSwitch(s, "selection", byKey), 30, 30),
            80, 80, FALSE))

\* C14 as stated: the move scenario leaves the shape at (60,60)-(110,110).
C14_MoveScenarioAsStated ==
    AfterDrawScenario =>
        \A byKey \in BOOLEAN :
            MoveScenario(St, byKey).currentState =
                << createElement(0, 60, 60, 110, 110, "line") >>

\* C14 amended: the move scenario translates the shape by (+50,+50) and
\* keeps its width and height of 40: it leaves the shape at
\* (60,60)-(100,100).
C14_MoveScenario ==
    AfterDrawScenario =>
        \A byKey \in BOOLEAN :
            LET t == MoveScenario(St, byKey)
            IN  /\ t.currentState = << createElement(0, 60, 60, 100, 100, "line") >>
                /\ t.history = << currentState, t.currentState >>
                /\ t.action = "none"

\* C14 witness: the state the two scenarios end in
C14_Witness ==
    /\ currentState = << createElement(0, 60, 60, 100, 100, "line") >>
    /\ history = << << createElement(0, 10, 10, 50, 50, "line") >>, currentState >>
    /\ currentIndex = 1
    /\ tool = "selection"
    /\ action = "none"

\* C15: a PointerMove that updates a shape refers to a shape id of the
\* displayed scene: while Moving the selected shape's id is a position of the
\* scene, and while Drawing the id of the shape being drawn is at most the
\* position just past the end of the scene.
C15_UpdateWithinScene ==
    /\ (action = "moving" /\ selectedElement # Null) =>
           selectedElement.id \in 0..(Len(currentState) - 1)
    /\ (action = "drawing" /\ tool # "selection") =>
           Len(elements) - 1 <= Len(currentState)

\* no position of a scene is missing
NoMissingEntry(scene) == \A k \in 1..Len(scene) : scene[k] # Undefined

\* C16: every position of the displayed scene and of every history snapshot
\* holds a shape, and the hit test of PointerDown and of PointerMove with
\* tool Selection never dereferences a missing entry.
C16_NoMissingEntries ==
    /\ NoMissingEntry(currentState)
    /\ \A i \in 1..Len(history) : NoMissingEntry(history[i])
    /\ \A p \in Pos :
           /\ ~handleMouseDownThrows(St, p[1], p[2])
           /\ ~handleMouseMoveThrows(St, p[1], p[2])

\* the events that are not a PointerMove leave the history sequence as it is
NoCommit(t) == t.history = history

\* C17: every PointerMove handled while Drawing (tool Line or Rectangle) or
\* Moving (tool Selection, selection present) performs exactly one commit:
\* currentIndex grows by 1 and history[currentIndex] is the updated scene;
\* PointerDown, PointerUp, ToolSwitch, PointerMove while Idle, Undo and Redo
\* perform no commit and leave the history sequence unchanged.
C17_CommitPerMove ==
    /\ \A p \in Pos :
           LET m == handleMouseMove(St, p[1], p[2], FALSE)
           IN  IF \/ action = "drawing" /\ tool \in {"line", "rectangle"}
                  \/ action = "moving" /\ tool = "selection"
                         /\ selectedElement # Null
               THEN /\ m.currentIndex = currentIndex + 1
                    /\ m.currentIndex + 1 \in 1..Len(m.history)
                    /\ m.history[m.currentIndex + 1] = m.currentState
               ELSE action = "none" => NoCommit(m)
    /\ \A p \in Pos : NoCommit(handleMouseDown(St, p[1], p[2]))
    /\ NoCommit(handleMouseUp(St))
    /\ \A newTool \in {"line", "rectangle", "selection"}, byKey \in BOOLEAN :
           NoCommit(ToolSwitch(St, newTool, byKey))
    /\ NoCommit(Undo(St))
    /\ NoCommit(Redo(St))

\* C18: PointerDown at (x,y) with tool Selection, text input not armed: if
\* findAt finds a shape of the displayed scene, the selection becomes that
\* shape's id with offsetX = x - x1 and offsetY = y - y1 and action becomes
\* Moving; if it finds none, an Idle state with an empty selection stays so;
\* scene, history and currentIndex are unchanged in both cases.
C18_SelectionPointerDown ==
    (tool = "selection" /\ ~textInputMode) =>
        \A p \in Pos :
            LET h == Hits(p[1], p[2], currentState)
                d == handleMouseDown(St, p[1], p[2])
            IN  /\ IF h # {}
                   THEN LET e == currentState[CHOOSE k \in h : \A j \in h : k <= j]
                        IN  /\ d.action = "moving"
                            /\ d.selectedElement # Null
                            /\ d.selectedElement.id = e.id
                            /\ d.selectedElement.offsetX = << p[1] - e.x1 >>
                            /\ d.selectedElement.offsetY = << p[2] - e.y1 >>
                   ELSE (action = "none" /\ selectedElement = Null) =>
                            (d.action = "none" /\ d.selectedElement = Null)
                /\ d.currentState = currentState
                /\ d.history = history
                /\ d.currentIndex = currentIndex

\* every shape of a scene sits at the position equal to its id
IdIsPosition(scene) ==
    \A k \in 1..Len(scene) : scene[k] # Undefined => scene[k].id = k - 1

\* C19: every shape of the displayed scene and of every history snapshot
\* sits at the position equal to its id, so no two shapes of a scene share
\* an id and replacing a shape shifts the id of no other shape.
C19_IdIsPosition ==
    /\ IdIsPosition(currentState)
    /\ \A i \in 1..Len(history) : IdIsPosition(history[i])
    /\ \A i \in 1..Len(history) :
           \A j, k \in 1..Len(history[i]) :
               (history[i][j] # Undefined /\ history[i][k] # Undefined
                    /\ history[i][j].id = history[i][k].id) => j = k

\* C19 witness: a scene of two shapes, the second written by updateElement
\* at its own index after the first was committed
C19_Witness ==
    /\ Len(currentState) = 2
    /\ NoMissingEntry(currentState)
    /\ currentState[2].x2 # currentState[2].x1
    /\ Len(history) = 2
    /\ history[1] = << currentState[1] >>
    /\ history[2] = currentState

\* C20 as stated: the selection is present if and only if action = Moving.
C20_SelectionIffMoving ==
    (selectedElement # Null) <=> (action = "moving")

\* C20 amended: action = Moving never occurs with an empty selection and a
\* selection never survives into Idle; it can survive into Drawing.
C20_MovingHasSelection ==
    /\ action = "moving" => selectedElement # Null
    /\ action = "none" => selectedElement = Null

\* C20 witness: a shape was grabbed, the tool switched to Line and
\* PointerDown started a drawing: the selection is still present
C20_Witness ==
    /\ action = "drawing"
    /\ tool = "line"
    /\ selectedElement # Null

\* every shape of a scene is a Line or a Rectangle
KindsOf(scene) ==
    \A k \in 1..Len(scene) :
        scene[k] # Undefined => scene[k].type \in {"line", "rectangle"}

\* C21: the kind of a shape is fixed when it is created: the shape being
\* drawn keeps the kind of the tool active at its PointerDown, whatever
\* ToolSwitch events arrive between PointerDown and the PointerMove that
\* updates it, and every shape in the scene has kind Line or Rectangle.
C21_KindFixedAtCreation ==
    /\ KindsOf(currentState)
    /\ (tool \in {"line", "rectangle"} /\ ~textInputMode) =>
           \A p \in Pos, q \in Pos, byKey1 \in BOOLEAN, byKey2 \in BOOLEAN :
               \A tool1 \in {"line", "rectangle", "selection"} :
                   \A tool2 \in {"line", "rectangle"} :
                       LET d == handleMouseDown(St, p[1], p[2])
                           index == Len(d.elements) - 1
                           w == ToolSwitch(ToolSwitch(d, tool1, byKey1), tool2, byKey2)
                           m == handleMouseMove(w, q[1], q[2], FALSE)
                       IN  m.history # w.history =>
                               /\ At(m.currentState, index) # Undefined
                               /\ At(m.currentState, index).type = tool

====
